---- MODULE Spec2Model ----
(***************************************************************************)
(* A model of lib/transport/ble/gatt-utils.js of hapclient-node: the       *)
(* disconnect/timeout watcher (addWatcher, removeWatcher), the HAP value   *)
(* codec (valueToBuffer, bufferToValue) and the UUID conversions           *)
(* (uuidToNobleUuid, nobleUuidToUuid).                                     *)
(*                                                                         *)
(* Spec and FairSpec are one watcher on one peripheral, from addWatcher to *)
(* removeWatcher, with the peripheral's 'disconnect' events and the        *)
(* setTimeout timer; CodecSpec packs a value and unpacks the buffer again, *)
(* or unpacks a buffer as received; UuidSpec applies the two UUID          *)
(* conversions in turn.                                                    *)
(*                                                                         *)
(* JavaScript values are tagged records: [kind |-> "boolean", b |-> TRUE], *)
(* [kind |-> "string", s |-> "Timeout"], [kind |-> "undefined"],           *)
(* [kind |-> "null"], [kind |-> "buffer", bytes |-> <<1, 0>>].  The        *)
(* integers of the codec exceed the model checker's 32-bit arithmetic, so  *)
(* an integer below 2^64 in magnitude is a sign and four 16-bit limbs,     *)
(* least significant first:                                                *)
(* [kind |-> "number", neg |-> FALSE, w |-> <<w0, w1, w2, w3>>] is         *)
(* w0 + 2^16 w1 + 2^32 w2 + 2^48 w3.  A thrown exception is a value of     *)
(* kind "throw" in place of the result.                                    *)
(***************************************************************************)
EXTENDS Integers, Sequences, FiniteSets, TLC

VARIABLES
  pc,          \* "start" before addWatcher is called, "armed" once it returned
  timeoutArg,  \* the third argument addWatcher was called with
  rejected,    \* the closure variable `rejected` of addWatcher
  watcher,     \* the object addWatcher returned ({rejected, fn, timeout})
  listeners,   \* the peripheral's 'disconnect' listeners, in registration order
  timer,       \* the setTimeout timer: its state and the milliseconds left
  calls,       \* the reasons rejectFn was invoked with, in order
  emitted,     \* how many 'disconnect' events the peripheral has emitted
  events,      \* what happened, in order: "arm", "disconnect", "timer", "remove"
  cstep,       \* codec run: "idle", "encode" (a value to pack), "decode", "done"
  cfmt,        \* codec run: the format tag
  cval,        \* codec run: the value handed to valueToBuffer
  cbuf,        \* codec run: the buffer (valueToBuffer's result, or the input of bufferToValue)
  cres,        \* codec run: what bufferToValue returned or threw
  uin,         \* UUID run: the string the run started from
  ustr,        \* UUID run: the string after the conversions applied so far
  uops         \* UUID run: the conversions applied, in order

wvars == <<pc, timeoutArg, rejected, watcher, listeners, timer, calls, emitted, events>>

cvars == <<cstep, cfmt, cval, cbuf, cres>>

uvars == <<uin, ustr, uops>>

vars == <<pc, timeoutArg, rejected, watcher, listeners, timer, calls, emitted, events,
          cstep, cfmt, cval, cbuf, cres, uin, ustr, uops>>

----------------------------------------------------------------------------
(* JavaScript values *)

Undefined == [kind |-> "undefined"]

Null == [kind |-> "null"]

\* 2^16, the base of the limbs, and 2^15.
Limb == 256 * 256

Half == 128 * 256

\* An integer, from its sign and its four limbs.
Integer(neg, w) == [kind |-> "number", neg |-> neg, w |-> w]

\* An integer n with -2^31 < n < 2^31.
Num(n) ==
  LET a == IF n < 0 THEN -n ELSE n IN
    Integer(n < 0, <<a % Limb, a \div Limb, 0, 0>>)

\* The value of a non-negative integer below 2^31, such as a delay in ms.
Ms(v) == v.w[1] + Limb * v.w[2]

Bool(b) == [kind |-> "boolean", b |-> b]

\* A string the code only passes on or compares.
Str(s) == [kind |-> "string", s |-> s]

\* A string the code computes on: the sequence of its code points.
Text(cp) == [kind |-> "string", cp |-> cp]

\* A Buffer: the sequence of its bytes.
Buf(bytes) == [kind |-> "buffer", bytes |-> bytes]

\* A thrown exception, in place of a result.
Throw(name, message) == [kind |-> "throw", name |-> name, message |-> message]

IsThrow(v) == v.kind = "throw"

\* ToBoolean: undefined, null, false, 0 and "" are falsy.
Truthy(v) ==
  CASE v.kind = "undefined" -> FALSE
    [] v.kind = "null" -> FALSE
    [] v.kind = "boolean" -> v.b
    [] v.kind = "number" ->
         IF "w" \in DOMAIN v THEN v.w # <<0, 0, 0, 0>>
         ELSE IF "special" \in DOMAIN v THEN v.special # "NaN"
         ELSE TRUE
    [] v.kind = "string" -> IF "s" \in DOMAIN v THEN v.s # "" ELSE v.cp # <<>>
    [] OTHER -> TRUE

----------------------------------------------------------------------------
(* Bounds of the watcher model *)

\* Explicit positive timeouts are 1..MaxTimeout milliseconds.
MaxTimeout == 2

\* The peripheral emits at most this many 'disconnect' events.
MaxDisconnects == 2

\* addWatcher's default for an absent timeout argument.
DefaultTimeout == 3000

\* The timeout arguments addWatcher is called with: absent, null, 0, 1, ...
TimeoutArgs == {Undefined, Null} \cup {Num(n) : n \in 0..MaxTimeout}

\* The reason argument of a 'disconnect' event: none, or a string.
DisconnectReasons == {Undefined, Str("Link lost")}

----------------------------------------------------------------------------
(* The watcher *)

NoWatcher == [kind |-> "none"]

NoTimer == [state |-> "none", remaining |-> 0]

\* The handle setTimeout returns.
TimerHandle == [kind |-> "Timeout"]

\* `timeout = 3000` in the parameter list: the default applies to an absent
\* (undefined) argument only.
DefaultedTimeout(arg) == IF arg.kind = "undefined" THEN Num(DefaultTimeout) ELSE arg

\* fn, the listener: reason = reason || 'Disconnected'; rejected = true;
\* rejectFn(reason).
fn(reason) ==
  /\ rejected' = TRUE
  /\ calls' = Append(calls, IF Truthy(reason) THEN reason ELSE Str("Disconnected"))

\* Faulty variants of the timer's callback: one that never calls fn, and one
\* that calls it without looking at `rejected`.
TimeoutCallbackSilent == UNCHANGED <<rejected, calls>>

TimeoutCallbackUnguarded == fn(Str("Timeout"))

\* The callback handed to setTimeout: if (rejected) return; fn('Timeout').
TimeoutCallback ==
  IF rejected
    THEN UNCHANGED <<rejected, calls>>
    ELSE fn(Str("Timeout"))

\* A faulty variant of the test below: if (timeout !== null).
StartsTimerUnlessNull(timeout) == timeout.kind # "null"

\* Whether addWatcher starts the timer: if (timeout) { ... }.
StartsTimer(timeout) == Truthy(timeout)

\* A faulty variant of removeWatcher's first statement: the timer is not
\* cleared.
ClearedTimerKept(w, t) == t

\* clearTimeout(watcher.timeout) under if (watcher.timeout): a timer that is
\* still pending is cancelled, one that has run is left as it is.
ClearedTimer(w, t) ==
  IF w.timeout # Null /\ t.state = "pending"
    THEN [state |-> "cleared", remaining |-> 0]
    ELSE t

\* addWatcher(peripheral, rejectFn, timeout = 3000)
addWatcher(arg) ==
  /\ pc = "start"
  /\ pc' = "armed"
  /\ timeoutArg' = arg
  /\ rejected' = FALSE
  /\ listeners' = Append(listeners, [fn |-> "fn", once |-> TRUE])
  /\ LET timeout == DefaultedTimeout(arg) IN
       IF StartsTimer(timeout)
         THEN /\ timer' = [state |-> "pending", remaining |-> Ms(timeout)]
              /\ watcher' = [rejected |-> FALSE, fn |-> "fn", timeout |-> TimerHandle]
         ELSE /\ timer' = NoTimer
              /\ watcher' = [rejected |-> FALSE, fn |-> "fn", timeout |-> Null]
  /\ events' = Append(events, "arm")
  /\ UNCHANGED <<calls, emitted>>
  /\ UNCHANGED <<cvars, uvars>>

\* peripheral.emit('disconnect', reason): every listener registered with once
\* is removed and then called with the event's argument.
EmitDisconnect(reason) ==
  /\ emitted < MaxDisconnects
  /\ emitted' = emitted + 1
  /\ events' = Append(events, IF reason = Undefined THEN "disconnect" ELSE "disconnect-reason")
  /\ IF listeners # <<>>
       THEN /\ listeners' = SelectSeq(listeners, LAMBDA l : ~l.once)
            /\ fn(reason)
       ELSE UNCHANGED <<listeners, rejected, calls>>
  /\ UNCHANGED <<pc, timeoutArg, watcher, timer>>
  /\ UNCHANGED <<cvars, uvars>>

\* A millisecond passes while the timer is pending.
Tick ==
  /\ timer.state = "pending"
  /\ timer.remaining > 0
  /\ timer' = [timer EXCEPT !.remaining = @ - 1]
  /\ UNCHANGED <<pc, timeoutArg, rejected, watcher, listeners, calls, emitted, events>>
  /\ UNCHANGED <<cvars, uvars>>

\* The event loop runs the timer's callback once its delay has passed.
TimerExpire ==
  /\ timer.state = "pending"
  /\ timer.remaining = 0
  /\ timer' = [state |-> "ran", remaining |-> 0]
  /\ events' = Append(events, "timer")
  /\ TimeoutCallback
  /\ UNCHANGED <<pc, timeoutArg, watcher, listeners, emitted>>
  /\ UNCHANGED <<cvars, uvars>>

\* removeWatcher(peripheral, watcher); callers call it once per watcher.
removeWatcher ==
  /\ pc = "armed"
  /\ \A i \in 1..Len(events) : events[i] # "remove"
  /\ timer' = ClearedTimer(watcher, timer)
  /\ listeners' = SelectSeq(listeners, LAMBDA l : l.fn # watcher.fn)
  /\ events' = Append(events, "remove")
  /\ UNCHANGED <<pc, timeoutArg, rejected, watcher, calls, emitted>>
  /\ UNCHANGED <<cvars, uvars>>

\* No watcher yet.
WatcherIdle ==
  /\ pc = "start"
  /\ timeoutArg = Undefined
  /\ rejected = FALSE
  /\ watcher = NoWatcher
  /\ listeners = <<>>
  /\ timer = NoTimer
  /\ calls = <<>>
  /\ emitted = 0
  /\ events = <<>>

\* No codec run.
CodecIdle ==
  /\ cstep = "idle"
  /\ cfmt = ""
  /\ cval = Undefined
  /\ cbuf = Undefined
  /\ cres = Undefined

\* No conversion of a UUID under way.
UuidIdle ==
  /\ uin = <<>>
  /\ ustr = <<>>
  /\ uops = <<>>

Init == WatcherIdle /\ CodecIdle /\ UuidIdle

Next ==
  \/ \E arg \in TimeoutArgs : addWatcher(arg)
  \/ \E reason \in DisconnectReasons : EmitDisconnect(reason)
  \/ Tick
  \/ TimerExpire
  \/ removeWatcher

Spec == Init /\ [][Next]_vars

\* Time passes and the event loop runs a due timer.
FairSpec == Spec /\ WF_vars(Tick) /\ WF_vars(TimerExpire)

----------------------------------------------------------------------------
(* 32-bit integer operations of JavaScript *)

\* The low 32 bits of an integer as two limbs, in two's complement for a
\* negative one.
Low32(v) ==
  LET a == v.w[1]
      b == v.w[2]
  IN  IF ~v.neg THEN <<a, b>>
      ELSE IF a = 0 THEN <<0, (Limb - b) % Limb>>
      ELSE <<Limb - a, Limb - 1 - b>>

\* ToInt32: the low 32 bits, read as a signed integer.
ToInt32(v) ==
  LET u == Low32(v) IN
    IF u[2] < Half THEN Integer(FALSE, <<u[1], u[2], 0, 0>>)
    ELSE IF u[1] = 0 THEN Integer(TRUE, <<0, Limb - u[2], 0, 0>>)
    ELSE Integer(TRUE, <<Limb - u[1], Limb - 1 - u[2], 0, 0>>)

\* x & 0xff
AndFF(v) == Num(Low32(v)[1] % 256)

\* x & 0xffffffff: both operands go through ToInt32 and so does the result.
AndFFFFFFFF(v) == ToInt32(v)

\* x >> 32 and x << 32: the shift count is taken modulo 32, so nothing is
\* shifted and the result is ToInt32(x).
ShiftRight32(v) == ToInt32(v)

ShiftLeft32(v) == ToInt32(v)

\* 0 <= v: true of every integer without the sign, and of -0.
NotBelowZero(v) == ~v.neg \/ v.w = <<0, 0, 0, 0>>

\* 0 <= v <= 0xffff, 0 <= v <= 0xffffffff, -2^31 <= v <= 2^31 - 1
InUInt16(v) == NotBelowZero(v) /\ v.w[2] = 0 /\ v.w[3] = 0 /\ v.w[4] = 0

InUInt32(v) == NotBelowZero(v) /\ v.w[3] = 0 /\ v.w[4] = 0

InInt32(v) ==
  /\ v.w[3] = 0
  /\ v.w[4] = 0
  /\ \/ v.w[2] < Half
     \/ v.neg /\ v.w[2] = Half /\ v.w[1] = 0

----------------------------------------------------------------------------
(* Buffer: the reads and writes the codec uses.  A read past the end of the *)
(* buffer and a write of a value outside the field's range throw a          *)
(* RangeError.                                                              *)

OffsetError == Throw("RangeError", <<"offset is out of range">>)

ValueError == Throw("RangeError", <<"value is out of range">>)

\* The four bytes of a 32-bit word given as two limbs, least significant first.
WordBytes(u) == <<u[1] % 256, u[1] \div 256, u[2] % 256, u[2] \div 256>>

\* bytes with the bytes of `field` written at offset off (0-based).
Patch(bytes, off, field) ==
  [i \in 1..Len(bytes) |->
     IF i > off /\ i <= off + Len(field) THEN field[i - off] ELSE bytes[i]]

\* Buffer.alloc(n): n zero bytes.
Alloc(n) == [i \in 1..n |-> 0]

\* buf.writeUInt16LE(value, off)
writeUInt16LE(bytes, v, off) ==
  IF InUInt16(v)
    THEN Buf(Patch(bytes, off, <<v.w[1] % 256, v.w[1] \div 256>>))
    ELSE ValueError

\* buf.writeUInt32LE(value, off)
writeUInt32LE(bytes, v, off) ==
  IF InUInt32(v)
    THEN Buf(Patch(bytes, off, WordBytes(Low32(v))))
    ELSE ValueError

\* buf.writeInt32LE(value, off)
writeInt32LE(bytes, v, off) ==
  IF InInt32(v)
    THEN Buf(Patch(bytes, off, WordBytes(Low32(v))))
    ELSE ValueError

\* buf.readUInt8(off)
readUInt8(bytes, off) ==
  IF off + 1 > Len(bytes) THEN OffsetError ELSE Num(bytes[off + 1])

\* buf.readUInt16LE(off)
readUInt16LE(bytes, off) ==
  IF off + 2 > Len(bytes) THEN OffsetError
  ELSE Num(bytes[off + 1] + 256 * bytes[off + 2])

\* buf.readUInt32LE(off)
readUInt32LE(bytes, off) ==
  IF off + 4 > Len(bytes) THEN OffsetError
  ELSE Integer(FALSE, <<bytes[off + 1] + 256 * bytes[off + 2],
                        bytes[off + 3] + 256 * bytes[off + 4], 0, 0>>)

\* A faulty variant of the read below: the word is read unsigned.
readInt32LEUnsigned(bytes, off) == readUInt32LE(bytes, off)

\* buf.readInt32LE(off)
readInt32LE(bytes, off) ==
  IF off + 4 > Len(bytes) THEN OffsetError
  ELSE ToInt32(readUInt32LE(bytes, off))

----------------------------------------------------------------------------
(* Single-precision floats.  A finite float that is an integer below 2^64  *)
(* is that integer; any other finite float is mant * 2^exp with mant odd;  *)
(* then there are Infinity, -Infinity and the NaNs.  A NaN keeps the sign  *)
(* and the 23 fraction bits it was read with, which no JavaScript          *)
(* operation but a write into a buffer shows.                              *)

\* The quiet bit of a NaN, the top bit of the fraction: 2^22.
Quiet == 64 * Limb

NaNOf(neg, frac) == [kind |-> "number", special |-> "NaN", neg |-> neg, frac |-> frac]

\* The NaN of the language: no sign, only the quiet bit.
NaN == NaNOf(FALSE, Quiet)

Infinity(neg) == [kind |-> "number", special |-> "Infinity", neg |-> neg]

Dyadic(neg, mant, exp) == [kind |-> "number", neg |-> neg, mant |-> mant, exp |-> exp]

RECURSIVE Pow2(_)
Pow2(k) == IF k = 0 THEN 1 ELSE 2 * Pow2(k - 1)

\* The number of bits of m > 0, and how many of its low bits are zero.
RECURSIVE BitLen(_)
BitLen(m) == IF m = 0 THEN 0 ELSE 1 + BitLen(m \div 2)

RECURSIVE TrailingZeros(_)
TrailingZeros(m) == IF m % 2 = 1 THEN 0 ELSE 1 + TrailingZeros(m \div 2)

\* The limbs w shifted left by k bits.
RECURSIVE Doubled(_, _)
Doubled(w, k) ==
  IF k = 0 THEN w
  ELSE Doubled(<<(2 * w[1]) % Limb,
                 (2 * w[2] + w[1] \div Half) % Limb,
                 (2 * w[3] + w[2] \div Half) % Limb,
                 (2 * w[4] + w[3] \div Half) % Limb>>, k - 1)

\* The number m * 2^x, for 0 < m < 2^24.
Finite(neg, m, x) ==
  LET tz == TrailingZeros(m)
      mant == m \div Pow2(tz)
      exp == x + tz
  IN  IF exp >= 0 /\ BitLen(mant) + exp <= 64
        THEN Integer(neg, Doubled(<<mant % Limb, mant \div Limb, 0, 0>>, exp))
        ELSE Dyadic(neg, mant, exp)

\* buf.readFloatLE(off): sign, 8 bits of exponent, 23 bits of fraction.  The
\* widening of the single to a double makes a signalling NaN quiet and keeps
\* the rest of its bits.
readFloatLE(bytes, off) ==
  IF off + 4 > Len(bytes) THEN OffsetError
  ELSE
    LET b0 == bytes[off + 1]
        b1 == bytes[off + 2]
        b2 == bytes[off + 3]
        b3 == bytes[off + 4]
        neg == b3 >= 128
        e == (b3 % 128) * 2 + b2 \div 128
        frac == (b2 % 128) * Limb + b1 * 256 + b0
    IN  IF e = 255 /\ frac = 0 THEN Infinity(neg)
        ELSE IF e = 255 THEN NaNOf(neg, IF frac >= Quiet THEN frac ELSE frac + Quiet)
        ELSE IF e = 0 /\ frac = 0 THEN Integer(neg, <<0, 0, 0, 0>>)
        ELSE IF e = 0 THEN Finite(neg, frac, -149)
        ELSE Finite(neg, 128 * Limb + frac, e - 150)

\* The 64 bits of the limbs w, least significant first.
Bits(w) == [i \in 1..64 |-> (w[(i - 1) \div 16 + 1] \div Pow2((i - 1) % 16)) % 2]

\* The four bytes of a float from its sign, biased exponent and fraction.
FloatBytes(neg, e, frac) ==
  <<frac % 256,
    (frac \div 256) % 256,
    (e % 2) * 128 + frac \div Limb,
    (IF neg THEN 128 ELSE 0) + e \div 2>>

RECURSIVE BitsValue(_, _, _)
\* The value of bits[lo..hi] (1-based, lo least significant).
BitsValue(bits, lo, hi) ==
  IF hi < lo THEN 0 ELSE bits[lo] + 2 * BitsValue(bits, lo + 1, hi)

\* The float nearest to a non-zero integer below 2^64 (ties to even).
IntegerFloatBytes(v) ==
  LET bits == Bits(v.w)
      top == CHOOSE i \in 1..64 : bits[i] = 1 /\ \A j \in (i + 1)..64 : bits[j] = 0
      p == top - 1
  IN  IF p <= 23
        THEN FloatBytes(v.neg, p + 127, BitsValue(bits, 1, top) * Pow2(23 - p) - 128 * Limb)
        ELSE
          LET q == BitsValue(bits, top - 23, top)
              guard == bits[top - 24]
              sticky == \E j \in 1..(top - 25) : bits[j] = 1
              up == guard = 1 /\ (sticky \/ q % 2 = 1)
              q1 == IF up THEN q + 1 ELSE q
          IN  IF q1 = 256 * Limb
                THEN FloatBytes(v.neg, p + 128, 0)
                ELSE FloatBytes(v.neg, p + 127, q1 - 128 * Limb)

\* buf.writeFloatLE(value, off)
writeFloatLE(bytes, v, off) ==
  Buf(Patch(bytes, off,
    IF "special" \in DOMAIN v
      THEN IF v.special = "NaN" THEN FloatBytes(v.neg, 255, v.frac)
           ELSE FloatBytes(v.neg, 255, 0)
    ELSE IF "mant" \in DOMAIN v
      THEN LET top == BitLen(v.mant) - 1 + v.exp IN
             IF top >= -126
               THEN FloatBytes(v.neg, top + 127,
                               v.mant * Pow2(24 - BitLen(v.mant)) - 128 * Limb)
               ELSE FloatBytes(v.neg, 0, v.mant * Pow2(v.exp + 149))
    ELSE IF v.w = <<0, 0, 0, 0>> THEN FloatBytes(v.neg, 0, 0)
    ELSE IntegerFloatBytes(v)))

----------------------------------------------------------------------------
(* Text: UTF-8 and base64 *)

\* U+FFFD, which replaces every ill-formed sequence.
Replacement == 255 * 256 + 253

\* buf.toString(): UTF-8 decoding; each maximal ill-formed part of the input
\* becomes one U+FFFD.  i is the next byte, needed/seen count the
\* continuation bytes of the sequence being read, cp is its value so far
\* and lower..upper is the range allowed for its next byte.
RECURSIVE Utf8Step(_, _, _, _, _, _, _, _)
Utf8Step(bytes, i, needed, seen, cp, lower, upper, out) ==
  IF i > Len(bytes)
    THEN IF needed # 0 THEN Append(out, Replacement) ELSE out
  ELSE
    LET b == bytes[i] IN
      IF needed = 0 THEN
        IF b <= 127 THEN Utf8Step(bytes, i + 1, 0, 0, 0, 128, 191, Append(out, b))
        ELSE IF b >= 194 /\ b <= 223
          THEN Utf8Step(bytes, i + 1, 1, 0, b % 32, 128, 191, out)
        ELSE IF b >= 224 /\ b <= 239
          THEN Utf8Step(bytes, i + 1, 2, 0, b % 16,
                        IF b = 224 THEN 160 ELSE 128, IF b = 237 THEN 159 ELSE 191, out)
        ELSE IF b >= 240 /\ b <= 244
          THEN Utf8Step(bytes, i + 1, 3, 0, b % 8,
                        IF b = 240 THEN 144 ELSE 128, IF b = 244 THEN 143 ELSE 191, out)
        ELSE Utf8Step(bytes, i + 1, 0, 0, 0, 128, 191, Append(out, Replacement))
      ELSE IF b < lower \/ b > upper
        THEN Utf8Step(bytes, i, 0, 0, 0, 128, 191, Append(out, Replacement))
      ELSE IF seen + 1 = needed
        THEN Utf8Step(bytes, i + 1, 0, 0, 0, 128, 191, Append(out, cp * 64 + (b % 64)))
      ELSE Utf8Step(bytes, i + 1, needed, seen + 1, cp * 64 + (b % 64), 128, 191, out)

Utf8Decode(bytes) == Utf8Step(bytes, 1, 0, 0, 0, 128, 191, <<>>)

\* The UTF-8 bytes of one code point; a surrogate is written as U+FFFD.
Utf8Bytes(c) ==
  LET x == IF c >= 216 * 256 /\ c < 224 * 256 THEN Replacement ELSE c IN
    IF x < 128 THEN <<x>>
    ELSE IF x < 2048 THEN <<192 + x \div 64, 128 + (x % 64)>>
    ELSE IF x < Limb THEN <<224 + x \div 4096, 128 + ((x \div 64) % 64), 128 + (x % 64)>>
    ELSE <<240 + x \div (64 * 4096), 128 + ((x \div 4096) % 64),
           128 + ((x \div 64) % 64), 128 + (x % 64)>>

\* Buffer.from(string): the UTF-8 bytes of the text.
RECURSIVE Utf8Encode(_)
Utf8Encode(cp) ==
  IF cp = <<>> THEN <<>> ELSE Utf8Bytes(Head(cp)) \o Utf8Encode(Tail(cp))

\* The base64 digit for a 6-bit value: A-Z, a-z, 0-9, +, /.
Base64Char(i) ==
  IF i < 26 THEN 65 + i
  ELSE IF i < 52 THEN 97 + (i - 26)
  ELSE IF i < 62 THEN 48 + (i - 52)
  ELSE IF i = 62 THEN 43
  ELSE 47

\* The 6-bit value of a base64 digit.
Base64Value(c) ==
  IF c >= 65 /\ c <= 90 THEN c - 65
  ELSE IF c >= 97 /\ c <= 122 THEN c - 97 + 26
  ELSE IF c >= 48 /\ c <= 57 THEN c - 48 + 52
  ELSE IF c = 43 THEN 62
  ELSE 63

\* buf.toString('base64'): three bytes make four digits, padded with "=".
RECURSIVE Base64Encode(_)
Base64Encode(bytes) ==
  IF bytes = <<>> THEN <<>>
  ELSE IF Len(bytes) = 1 THEN
    <<Base64Char(bytes[1] \div 4), Base64Char((bytes[1] % 4) * 16), 61, 61>>
  ELSE IF Len(bytes) = 2 THEN
    <<Base64Char(bytes[1] \div 4),
      Base64Char((bytes[1] % 4) * 16 + bytes[2] \div 16),
      Base64Char((bytes[2] % 16) * 4), 61>>
  ELSE
    <<Base64Char(bytes[1] \div 4),
      Base64Char((bytes[1] % 4) * 16 + bytes[2] \div 16),
      Base64Char((bytes[2] % 16) * 4 + bytes[3] \div 64),
      Base64Char(bytes[3] % 64)>> \o Base64Encode(SubSeq(bytes, 4, Len(bytes)))

\* Buffer.from(string, 'base64') on padded base64 text: four digits make
\* three bytes, fewer when the group ends in "=".
RECURSIVE Base64Decode(_)
Base64Decode(cp) ==
  IF Len(cp) < 4 THEN <<>>
  ELSE
    LET a == Base64Value(cp[1])
        b == Base64Value(cp[2])
        c == Base64Value(cp[3])
        d == Base64Value(cp[4])
    IN  IF cp[3] = 61 THEN <<a * 4 + b \div 16>>
        ELSE IF cp[4] = 61 THEN <<a * 4 + b \div 16, (b % 16) * 16 + c \div 4>>
        ELSE <<a * 4 + b \div 16, (b % 16) * 16 + c \div 4, (c % 4) * 64 + d>>
               \o Base64Decode(SubSeq(cp, 5, Len(cp)))

----------------------------------------------------------------------------
(* The value codec *)

\* The format tags of the switch statements.
Formats == {"bool", "uint8", "uint16", "uint32", "uint64", "int", "float", "string", "data"}

\* throw new Error(`Unknown format type: ${format}`)
UnknownFormat(format) == Throw("Error", <<"Unknown format type: ", format>>)

\* A faulty variant of the 'uint64' case below: both words are read before
\* the first is tested.
ReadUInt64Eager(bytes) ==
  LET lo == readUInt32LE(bytes, 0)
      hi == readUInt32LE(bytes, 4)
  IN  IF IsThrow(lo) THEN lo
      ELSE IF IsThrow(hi) THEN hi
      ELSE IF Truthy(lo) THEN lo
      ELSE ShiftLeft32(hi)

\* buffer.readUInt32LE(0) || (buffer.readUInt32LE(4) << 32): the second word
\* is read only when the first is zero.
ReadUInt64(bytes) ==
  LET lo == readUInt32LE(bytes, 0) IN
    IF IsThrow(lo) THEN lo
    ELSE IF Truthy(lo) THEN lo
    ELSE LET hi == readUInt32LE(bytes, 4) IN
           IF IsThrow(hi) THEN hi ELSE ShiftLeft32(hi)

\* bufferToValue(buffer, format)
bufferToValue(buffer, format) ==
  CASE format = "bool" ->
         LET r == readUInt8(buffer.bytes, 0) IN
           IF IsThrow(r) THEN r ELSE Bool(r # Num(0))
    [] format = "uint8" -> readUInt8(buffer.bytes, 0)
    [] format = "uint16" -> readUInt16LE(buffer.bytes, 0)
    [] format = "uint32" -> readUInt32LE(buffer.bytes, 0)
    [] format = "uint64" -> ReadUInt64(buffer.bytes)
    [] format = "int" -> readInt32LE(buffer.bytes, 0)
    [] format = "float" -> readFloatLE(buffer.bytes, 0)
    [] format = "string" -> Text(Utf8Decode(buffer.bytes))
    [] format = "data" -> Text(Base64Encode(buffer.bytes))
    [] OTHER -> UnknownFormat(format)

\* The 'uint64' case of valueToBuffer: two 32-bit writes into eight bytes.
WriteUInt64(value) ==
  LET low == writeUInt32LE(Alloc(8), AndFFFFFFFF(value), 0) IN
    IF IsThrow(low) THEN low
    ELSE writeUInt32LE(low.bytes, ShiftRight32(value), 4)

\* valueToBuffer(value, format)
valueToBuffer(value, format) ==
  CASE format = "bool" -> Buf(<<IF Truthy(value) THEN 1 ELSE 0>>)
    [] format = "uint8" -> Buf(<<Ms(AndFF(value))>>)
    [] format = "uint16" -> writeUInt16LE(Alloc(2), value, 0)
    [] format = "uint32" -> writeUInt32LE(Alloc(4), value, 0)
    [] format = "uint64" -> WriteUInt64(value)
    [] format = "int" -> writeInt32LE(Alloc(4), value, 0)
    [] format = "float" -> writeFloatLE(Alloc(4), value, 0)
    [] format = "string" -> Buf(Utf8Encode(value.cp))
    [] format = "data" ->
         IF value.kind = "string" THEN Buf(Base64Decode(value.cp)) ELSE value
    [] OTHER -> UnknownFormat(format)

----------------------------------------------------------------------------
(* Runs of the codec: a value is packed and the buffer unpacked again, or a *)
(* buffer as received from the device is unpacked.                          *)

\* Sample limbs lie within Spread of 0, 2^7, 2^8, 2^15 and 2^16 - 1.
Spread == 1

\* Received buffers have up to MaxRawLen bytes.
MaxRawLen == 8

EdgeLimbs ==
  {x \in {e + d : e \in {0, 128, 256, Half, Limb - 1}, d \in (0 - Spread)..Spread} :
     x >= 0 /\ x < Limb}

\* Integers below 2^48 in magnitude around the edges of the field widths,
\* -0 among them.
SampleIntegers ==
  {Integer(neg, <<w0, w1, w2, 0>>) :
     neg \in BOOLEAN, w0 \in EdgeLimbs, w1 \in EdgeLimbs, w2 \in 0..Spread}

\* The byte at position i (from 1) of the received buffers' contents.
RawByte(p, i) ==
  CASE p = 1 -> 0
    [] p = 2 -> 255
    [] p = 3 -> i
    [] p = 4 -> IF i <= 4 THEN 0 ELSE 127 + i
    [] p = 5 -> <<65, 195, 169, 226, 130, 172, 240, 159, 152, 128>>[((i - 1) % 10) + 1]
    [] p = 6 -> <<224, 128, 195, 65, 244, 144, 237, 160, 128, 255>>[((i - 1) % 10) + 1]
    [] p = 7 -> <<0, 0, 128, 63, 1, 0, 192, 127, 0, 0>>[((i - 1) % 10) + 1]
    [] OTHER -> <<1, 0, 0, 0, 0, 0, 128, 255, 3, 0>>[((i - 1) % 10) + 1]

RawBuffers == {Buf([i \in 1..n |-> RawByte(p, i)]) : p \in 1..8, n \in 0..MaxRawLen}

\* Format tags handed to the codec: the nine known ones and two others.
Tags == Formats \cup {"unknown", "int64"}

\* Strings to pack as 'string': ASCII, two-, three- and four-byte code points
\* and a lone surrogate.
SampleTexts ==
  {Text(<<>>), Text(<<72, 105>>), Text(<<233, 8364>>),
   Text(<<72, 240 * 256 + 159, 128512>>), Text(<<216 * 256>>)}

\* Words that are NaNs: a signalling one, quiet ones with more bits set and
\* one with the sign.
NaNWords ==
  {<<1, 0, 128, 127>>, <<1, 0, 192, 127>>, <<255, 255, 255, 127>>, <<0, 0, 192, 255>>}

\* The values valueToBuffer is handed for a format.
EncodeInputs(format) ==
  CASE format = "bool" -> {Bool(TRUE), Bool(FALSE), Num(0), Num(2), Text(<<>>)}
    [] format = "uint8" -> SampleIntegers \cup {Num(n) : n \in 0..255}
    [] format = "uint16" -> SampleIntegers \cup {Num(n) : n \in 0..(Limb - 1)}
    [] format \in {"uint32", "uint64", "int"} -> SampleIntegers
    [] format = "float" ->
         SampleIntegers \cup {NaN}
           \cup {readFloatLE(b.bytes, 0) : b \in {r \in RawBuffers : Len(r.bytes) = 4}}
           \cup {readFloatLE(b, 0) : b \in NaNWords}
    [] format = "string" -> SampleTexts
    [] format = "data" ->
         {Text(Base64Encode(b.bytes)) : b \in RawBuffers}
           \cup {b \in RawBuffers : Len(b.bytes) <= 2}
    [] OTHER -> {Num(1)}

CodecInit ==
  /\ WatcherIdle
  /\ UuidIdle
  /\ cfmt \in Tags
  /\ cres = Undefined
  /\ \/ /\ cstep = "encode"
        /\ cval \in EncodeInputs(cfmt)
        /\ cbuf = Undefined
     \/ /\ cstep = "decode"
        /\ cval = Undefined
        /\ cbuf \in RawBuffers

\* valueToBuffer(cval, cfmt)
Encode ==
  /\ cstep = "encode"
  /\ cbuf' = valueToBuffer(cval, cfmt)
  /\ cstep' = IF IsThrow(cbuf') THEN "done" ELSE "decode"
  /\ UNCHANGED <<cfmt, cval, cres>>
  /\ UNCHANGED <<wvars, uvars>>

\* bufferToValue(cbuf, cfmt)
Decode ==
  /\ cstep = "decode"
  /\ cres' = bufferToValue(cbuf, cfmt)
  /\ cstep' = "done"
  /\ UNCHANGED <<cfmt, cval, cbuf>>
  /\ UNCHANGED <<wvars, uvars>>

CodecNext == Encode \/ Decode

CodecSpec == CodecInit /\ [][CodecNext]_vars

----------------------------------------------------------------------------
(* The UUID conversions.  A string is the sequence of its character codes; *)
(* the model's strings are ASCII.                                          *)

\* "-"
Dash == 45

\* String.prototype.toLowerCase and toUpperCase
toLowerCase(s) == [i \in 1..Len(s) |-> IF s[i] >= 65 /\ s[i] <= 90 THEN s[i] + 32 ELSE s[i]]

toUpperCase(s) == [i \in 1..Len(s) |-> IF s[i] >= 97 /\ s[i] <= 122 THEN s[i] - 32 ELSE s[i]]

\* s.replace(/-/g, '')
RemoveDashes(s) == SelectSeq(s, LAMBDA c : c # Dash)

\* s.replace('-', ''): only the first dash goes.
RemoveFirstDash(s) ==
  LET at == {i \in 1..Len(s) : s[i] = Dash} IN
    IF at = {} THEN s
    ELSE LET k == CHOOSE i \in at : \A j \in at : i <= j IN
           SubSeq(s, 1, k - 1) \o SubSeq(s, k + 1, Len(s))

\* s.substring(from, to), for 0 <= from <= to <= s.length
substring(s, from, to) == SubSeq(s, from + 1, to)

\* parts.join('-')
RECURSIVE JoinDash(_)
JoinDash(parts) ==
  IF Len(parts) = 0 THEN <<>>
  ELSE IF Len(parts) = 1 THEN parts[1]
  ELSE parts[1] \o <<Dash>> \o JoinDash(Tail(parts))

\* A faulty variant of the conversion below: replace('-', '') in place of
\* replace(/-/g, '').
uuidToNobleUuidFirstDash(uuid) == RemoveFirstDash(toLowerCase(uuid))

\* uuidToNobleUuid(uuid)
uuidToNobleUuid(uuid) == RemoveDashes(toLowerCase(uuid))

\* nobleUuidToUuid(uuid)
nobleUuidToUuid(uuid) ==
  LET upper == toUpperCase(uuid) IN
    IF Len(upper) # 32 THEN upper
    ELSE JoinDash(<<substring(upper, 0, 8),
                    substring(upper, 8, 12),
                    substring(upper, 12, 16),
                    substring(upper, 16, 20),
                    substring(upper, 20, 32)>>)

\* The conversions are applied to NumSeeds generated UUIDs in each letter
\* case, at most MaxUuidOps times in a row.
NumSeeds == 6

MaxUuidOps == 2

\* The character of hex digit d, in upper or lower case.
HexChar(d, upper) == IF d < 10 THEN 48 + d ELSE IF upper THEN 55 + d ELSE 87 + d

\* 32 hex digits; the letters are lower case, upper case or alternate.
Hex32(seed, case) ==
  [i \in 1..32 |->
     HexChar((seed * i + (i \div 3) + seed) % 16,
             CASE case = "lower" -> FALSE
               [] case = "upper" -> TRUE
               [] OTHER -> i % 2 = 0)]

\* The digits grouped 8-4-4-4-12.
Dashed(h) ==
  SubSeq(h, 1, 8) \o <<Dash>> \o SubSeq(h, 9, 12) \o <<Dash>> \o SubSeq(h, 13, 16)
    \o <<Dash>> \o SubSeq(h, 17, 20) \o <<Dash>> \o SubSeq(h, 21, 32)

\* Canonical and compact UUIDs, and strings that are neither: "", "2A37",
\* "abc", 31 digits, 32 characters with dashes among them, 32 letters g-z.
UuidInputs ==
  {Dashed(Hex32(s, c)) : s \in 1..NumSeeds, c \in {"lower", "upper", "mixed"}}
    \cup {Hex32(s, c) : s \in 1..NumSeeds, c \in {"lower", "upper", "mixed"}}
    \cup {<<>>, <<50, 65, 51, 55>>, <<97, 98, 99>>,
          SubSeq(Hex32(1, "lower"), 1, 31),
          SubSeq(Dashed(Hex32(1, "mixed")), 1, 32),
          [i \in 1..32 |-> 103 + (i % 20)]}

UuidInit ==
  /\ WatcherIdle
  /\ CodecIdle
  /\ uin \in UuidInputs
  /\ ustr = uin
  /\ uops = <<>>

\* ustr = uuidToNobleUuid(ustr)
ToNoble ==
  /\ Len(uops) < MaxUuidOps
  /\ ustr' = uuidToNobleUuid(ustr)
  /\ uops' = Append(uops, "noble")
  /\ UNCHANGED <<uin, wvars, cvars>>

\* ustr = nobleUuidToUuid(ustr)
ToUuid ==
  /\ Len(uops) < MaxUuidOps
  /\ ustr' = nobleUuidToUuid(ustr)
  /\ uops' = Append(uops, "uuid")
  /\ UNCHANGED <<uin, wvars, cvars>>

UuidNext == ToNoble \/ ToUuid

UuidSpec == UuidInit /\ [][UuidNext]_vars

----------------------------------------------------------------------------
(* Properties of the watcher *)

\* What happened after addWatcher returned.
Post ==
  LET arm == {i \in 1..Len(events) : events[i] = "arm"} IN
    IF arm = {} THEN <<>>
    ELSE SubSeq(events, (CHOOSE i \in arm : TRUE) + 1, Len(events))

FirstPost == IF Post = <<>> THEN "none" ELSE Post[1]

Occurred(kinds) == \E i \in 1..Len(Post) : Post[i] \in kinds

\* The watcher was armed with a timeout that is, after defaulting, positive.
PositiveTimeout ==
  /\ pc = "armed"
  /\ DefaultedTimeout(timeoutArg).kind = "number"
  /\ ~DefaultedTimeout(timeoutArg).neg
  /\ Truthy(DefaultedTimeout(timeoutArg))

\* C1: over every interleaving of disconnect events, timer expiry and
\* removeWatcher, rejectFn is invoked at most once per watcher.
C1_AtMostOnce == Len(calls) <= 1

\* C2: when removeWatcher is the first thing to happen after addWatcher
\* returned (before any disconnect event and before the timer's callback),
\* rejectFn is never invoked, whatever is emitted and however long one waits.
C2_DisarmFirstNeverFires == FirstPost = "remove" => calls = <<>>

\* C2's case: a positive timeout, removeWatcher first, then a disconnect event.
C2_Witness ==
  /\ PositiveTimeout
  /\ FirstPost = "remove"
  /\ Occurred({"disconnect", "disconnect-reason"})
  /\ timer.state = "cleared"
  /\ calls = <<>>

\* C3: a watcher armed with a positive timeout, with no disconnect event and
\* no removeWatcher call, eventually invokes rejectFn, with the reason
\* "Timeout" and nothing else.
C3_TimeoutFires ==
  PositiveTimeout ~>
    \/ Occurred({"disconnect", "disconnect-reason", "remove"})
    \/ calls = <<Str("Timeout")>>

\* C3's case: the timer's callback was the only thing that happened.
C3_Witness ==
  /\ PositiveTimeout
  /\ Post = <<"timer">>
  /\ calls = <<Str("Timeout")>>

\* C4 as stated: when a disconnect event without a reason comes first on a
\* watcher with a positive timeout, rejectFn is invoked once with
\* "Disconnected" and the timer is cancelled.
C4_Original ==
  (PositiveTimeout /\ FirstPost = "disconnect") =>
    /\ calls = <<Str("Disconnected")>>
    /\ timer.state = "cleared"

\* C4 as amended: when a disconnect event without a reason comes first on a
\* watcher with a positive timeout, rejectFn is invoked with "Disconnected"
\* and never again: the timer is left pending (only removeWatcher cancels
\* it), and its callback, when it runs, invokes nothing.
C4_DisconnectFirst ==
  (PositiveTimeout /\ FirstPost = "disconnect") =>
    /\ calls = <<Str("Disconnected")>>
    /\ timer.state \in {"pending", "ran"} \/ Occurred({"remove"})

\* C4's case: the disconnect came first and the timer's callback ran later.
C4_Witness ==
  /\ PositiveTimeout
  /\ FirstPost = "disconnect"
  /\ Occurred({"timer"})
  /\ timer.state = "ran"
  /\ calls = <<Str("Disconnected")>>

\* C5: the rejected flag of the returned handle is false when addWatcher
\* returns and true in every state after the watcher has fired.
C5_HandleFlag ==
  pc = "armed" =>
    /\ Post = <<>> => watcher.rejected = FALSE
    /\ calls # <<>> => watcher.rejected = TRUE

\* C6 as stated: a timeout of 0, or an absent timeout argument, disables the
\* timer: the handle holds no timer and the watcher never fires with "Timeout".
C6_Original ==
  (pc = "armed" /\ timeoutArg \in {Num(0), Undefined}) =>
    /\ watcher.timeout = Null
    /\ timer.state = "none"
    /\ \A i \in 1..Len(calls) : calls[i] # Str("Timeout")

\* C6 as amended: a timeout of 0 or null disables the timer (the handle holds
\* no timer and the watcher never fires with "Timeout"); an absent timeout
\* argument takes the default of 3000 ms and starts a timer.
C6_FalsyDisables ==
  /\ (pc = "armed" /\ timeoutArg \in {Num(0), Null}) =>
       /\ watcher.timeout = Null
       /\ timer.state = "none"
       /\ \A i \in 1..Len(calls) : calls[i] # Str("Timeout")
  /\ (pc = "armed" /\ timeoutArg = Undefined) =>
       /\ watcher.timeout = TimerHandle
       /\ timer.state # "none"
       /\ timer.remaining <= DefaultTimeout

\* C6's case: a watcher armed with timeout 0 fired through a disconnect event.
C6_Witness ==
  /\ pc = "armed"
  /\ timeoutArg = Num(0)
  /\ watcher.timeout = Null
  /\ calls = <<Str("Disconnected")>>

----------------------------------------------------------------------------
(* Properties of the codec *)

\* a === b in JavaScript: 0 and -0 are equal and a NaN equals nothing.
StrictEquals(a, b) ==
  IF a.kind = "number" /\ b.kind = "number" /\ "w" \in DOMAIN a /\ "w" \in DOMAIN b
    THEN a.w = b.w /\ (a.neg = b.neg \/ a.w = <<0, 0, 0, 0>>)
    ELSE a = b /\ ~(a.kind = "number" /\ "special" \in DOMAIN a /\ a.special = "NaN")

\* Whether v is a value of the format's width; -0 is the number 0.
Representable(v, format) ==
  CASE format = "bool" -> v.kind = "boolean"
    [] format = "uint8" ->
         v.kind = "number" /\ NotBelowZero(v) /\ v.w[1] < 256
           /\ v.w[2] = 0 /\ v.w[3] = 0 /\ v.w[4] = 0
    [] format = "uint16" ->
         v.kind = "number" /\ NotBelowZero(v) /\ v.w[2] = 0 /\ v.w[3] = 0 /\ v.w[4] = 0
    [] format = "uint32" ->
         v.kind = "number" /\ NotBelowZero(v) /\ v.w[3] = 0 /\ v.w[4] = 0
    [] format = "int" ->
         /\ v.kind = "number"
         /\ v.w[3] = 0
         /\ v.w[4] = 0
         /\ IF v.neg THEN v.w[2] < 128 * 256 \/ (v.w[2] = 128 * 256 /\ v.w[1] = 0)
            ELSE v.w[2] < 128 * 256
    [] OTHER -> FALSE

\* C7: for bool, uint8, uint16, uint32 and int, and every value v of the
\* format's width, bufferToValue(valueToBuffer(v, fmt), fmt) equals v (as ===
\* does: -0 comes back as 0).
C7_RoundTrip ==
  (cstep = "done" /\ cval # Undefined /\ Representable(cval, cfmt)) =>
    StrictEquals(cres, cval)

\* C7's case: -2^31 went through 'int' and came back.
C7_Witness ==
  /\ cstep = "done"
  /\ cfmt = "int"
  /\ cval = Integer(TRUE, <<0, 128 * 256, 0, 0>>)
  /\ cbuf = Buf(<<0, 0, 0, 128>>)
  /\ cres = cval

\* C8: for every unsigned v below 2^64, valueToBuffer(v, "uint64") is eight
\* bytes: v mod 2^32 as a little-endian word, then floor(v / 2^32) as one.
C8_UInt64Layout ==
  (cfmt = "uint64" /\ cstep \in {"decode", "done"} /\ cval # Undefined /\ ~cval.neg) =>
    cbuf = Buf(<<cval.w[1] % 256, cval.w[1] \div 256, cval.w[2] % 256, cval.w[2] \div 256,
                 cval.w[3] % 256, cval.w[3] \div 256, cval.w[4] % 256, cval.w[4] \div 256>>)

\* C9 as stated: bufferToValue throws if and only if the format tag is not
\* one of the nine, and then the error names the tag.
C9_Original ==
  (cstep = "done" /\ cres # Undefined) =>
    /\ IsThrow(cres) <=> cfmt \notin Formats
    /\ cfmt \notin Formats => cres.message = <<"Unknown format type: ", cfmt>>

\* The bytes bufferToValue reads for a format: uint64 reads its second word
\* only when the first is zero.
BytesRead(format, bytes) ==
  CASE format \in {"bool", "uint8"} -> 1
    [] format = "uint16" -> 2
    [] format \in {"uint32", "int", "float"} -> 4
    [] format = "uint64" ->
         IF Len(bytes) >= 4 /\ \A i \in 1..4 : bytes[i] = 0 THEN 8 ELSE 4
    [] OTHER -> 0

\* C9 as amended: bufferToValue throws in two cases only: an Error naming the
\* tag when the tag is not one of the nine, and a RangeError when the buffer
\* is shorter than the bytes the format reads; otherwise it returns a value.
C9_DecodeFailures ==
  (cstep = "done" /\ cres # Undefined) =>
    IF cfmt \notin Formats
      THEN cres = Throw("Error", <<"Unknown format type: ", cfmt>>)
    ELSE IF Len(cbuf.bytes) < BytesRead(cfmt, cbuf.bytes)
      THEN IsThrow(cres) /\ cres.name = "RangeError"
    ELSE ~IsThrow(cres)

\* C9's case: a three-byte buffer unpacked as uint32.
C9_Witness ==
  /\ cstep = "done"
  /\ cfmt = "uint32"
  /\ cval = Undefined
  /\ Len(cbuf.bytes) = 3
  /\ IsThrow(cres)
  /\ cres.name = "RangeError"

----------------------------------------------------------------------------
(* Properties of the UUID conversions *)

IsHexChar(c) == (c >= 48 /\ c <= 57) \/ (c >= 65 /\ c <= 70) \/ (c >= 97 /\ c <= 102)

\* 32 hex digits in any letter case, grouped 8-4-4-4-12 with dashes.
IsCanonical(x) ==
  /\ Len(x) = 36
  /\ \A i \in 1..36 : IF i \in {9, 14, 19, 24} THEN x[i] = Dash ELSE IsHexChar(x[i])

\* 32 lower-case hex digits.
IsCompact(c) ==
  /\ Len(c) = 32
  /\ \A i \in 1..32 : (c[i] >= 48 /\ c[i] <= 57) \/ (c[i] >= 97 /\ c[i] <= 102)

\* C10: for a canonical x, nobleUuidToUuid(uuidToNobleUuid(x)) is x in upper
\* case with the same grouping; for a compact c,
\* uuidToNobleUuid(nobleUuidToUuid(c)) is c.
C10_RoundTrips ==
  /\ (uops = <<"noble", "uuid">> /\ IsCanonical(uin)) =>
       /\ Len(ustr) = 36
       /\ \A i \in 1..36 :
            ustr[i] = IF uin[i] >= 97 /\ uin[i] <= 102 THEN uin[i] - 32 ELSE uin[i]
  /\ (uops = <<"uuid", "noble">> /\ IsCompact(uin)) => ustr = uin

\* C10's case: a canonical UUID with lower-case letters went through both
\* conversions.
C10_Witness ==
  /\ uops = <<"noble", "uuid">>
  /\ IsCanonical(uin)
  /\ \E i \in 1..36 : uin[i] >= 97
  /\ IsCanonical(ustr)
  /\ ustr # uin

====
